---- MODULE Spec2Model ----
(***************************************************************************)
(* Model of pointersorter.c: a red-black tree of words (insert with its    *)
(* fixup loop, the two rotations, printTree and recycleTree), driven the   *)
(* way main drives it: any number of insert calls, then printTree and      *)
(* recycleTree.                                                            *)
(*                                                                         *)
(* Nodes live in a heap indexed 1..MaxNodes; malloc hands out the next     *)
(* unused index.  A word is the sequence of its bytes.                     *)
(***************************************************************************)
EXTENDS Integers, Sequences, FiniteSets, TLC

\* ---------------------------------------------------------------- bounds
NumWords == 6

\* the words main may pass to insert: m d t b f k ba da
AllWords == << <<109>>, <<100>>, <<116>>, <<98>>, <<102>>, <<107>>,
               <<98, 97>>, <<100, 97>> >>

Words == {AllWords[i] : i \in 1..NumWords}

\* words main passes to insert where termination is checked
NumLiveWords == 5

\* nodes of the trees the rotations are applied to on their own
NumRotWords == 5

\* malloc failures followed in one run of the program
MaxFail == 1

\* heap cells available to malloc: one per word of MoreWords and the cell
\* the first insert leaks
MaxNodes == NumWords + 2

NULL == 0

Nodes == 1..MaxNodes

Blank == [word |-> <<>>, color |-> "u", parent |-> NULL, left |-> NULL, right |-> NULL]

VARIABLES heap, nalloc, root, pc, word, iroot, ptr, parent, uncle,
          grandparent, cmp, oom, nfail, heap0, nalloc0, inserted, out,
          stack, freeLog, uaf, iter, branch, rotPre, nrot, nrecolor,
          rotN, rotRoot, rotDir

locals == <<word, iroot, ptr, parent, uncle, grandparent, cmp, oom>>

teardown == <<out, stack, freeLog, uaf>>

history == <<nfail, heap0, nalloc0, inserted>>

\* what the fixup loop of the running insert call has done (iter, branch) and
\* what the rotations and recolorings of the whole run have been
insertHist == <<iter, branch, rotPre, nrot, nrecolor>>

\* the arguments and the kind of the rotation last applied on its own
rotvars == <<rotN, rotRoot, rotDir>>

vars == <<heap, nalloc, root, pc, word, iroot, ptr, parent, uncle,
          grandparent, cmp, oom, nfail, heap0, nalloc0, inserted, out,
          stack, freeLog, uaf, iter, branch, rotPre, nrot, nrecolor,
          rotN, rotRoot, rotDir>>

\* ------------------------------------------------------------- accessors
getWord(h, n) == IF n = NULL THEN <<>> ELSE h[n].word

setWord(h, n, w) == IF n # NULL THEN [h EXCEPT ![n].word = w] ELSE h

getColor(h, n) == IF n = NULL THEN "nul" ELSE h[n].color

setColor(h, n, c) ==
    IF n # NULL /\ (c = "r" \/ c = "b") THEN [h EXCEPT ![n].color = c] ELSE h

getParent(h, child) == IF child = NULL THEN NULL ELSE h[child].parent

setParent(h, child, p) == IF child # NULL THEN [h EXCEPT ![child].parent = p] ELSE h

getLeftChild(h, p) == IF p = NULL THEN NULL ELSE h[p].left

setLeftChild(h, p, child) == IF p # NULL THEN [h EXCEPT ![p].left = child] ELSE h

getRightChild(h, p) == IF p = NULL THEN NULL ELSE h[p].right

setRightChild(h, p, child) == IF p # NULL THEN [h EXCEPT ![p].right = child] ELSE h

getGrandparent(h, child) ==
    IF child # NULL /\ h[child].parent # NULL
    THEN h[h[child].parent].parent
    ELSE NULL

\* getUncle that always answers with the grandparent's right child
getUncleAlwaysRight(h, child) ==
    LET g == getGrandparent(h, child) IN
    IF g # NULL THEN h[g].right ELSE NULL

getUncle(h, child) ==
    LET g == getGrandparent(h, child) IN
    IF g # NULL
    THEN IF h[child].parent = h[g].left THEN h[g].right ELSE h[g].left
    ELSE NULL

\* strcmp on byte sequences; the byte past the end is the terminating 0
byteAt(s, i) == IF i <= Len(s) THEN s[i] ELSE 0

RECURSIVE strcmpFrom(_, _, _)
strcmpFrom(a, b, i) ==
    IF byteAt(a, i) # byteAt(b, i) THEN byteAt(a, i) - byteAt(b, i)
    ELSE IF byteAt(a, i) = 0 THEN 0
    ELSE strcmpFrom(a, b, i + 1)

strcmp(a, b) == strcmpFrom(a, b, 1)

\* makeNode: ok says whether malloc returned a cell.  The result carries the
\* new heap, the node returned (NULL on failure) and the new cell count.
makeNode(h, na, w, p, ok) ==
    LET newNode == IF ok THEN na + 1 ELSE NULL
        h1 == setWord(h, newNode, w)
        h2 == setColor(h1, newNode, "r")
        h3 == setParent(h2, newNode, p)
        h4 == setLeftChild(h3, newNode, NULL)
        h5 == setRightChild(h4, newNode, NULL)
    IN [heap |-> h5, node |-> newNode, nalloc |-> IF ok THEN na + 1 ELSE na]

\* ------------------------------------------------------------- rotations
\* leftRotate that also exchanges the colors of n and m
leftRotateRecolor(h, rt, n) ==
    LET m  == getRightChild(h, n)
        h1 == setRightChild(h, n, getLeftChild(h, m))
        h2 == IF getLeftChild(h1, m) # NULL
              THEN setParent(h1, getLeftChild(h1, m), n) ELSE h1
        h3 == setParent(h2, m, getParent(h2, n))
        rt1 == IF getParent(h3, n) = NULL THEN m ELSE rt
        h4 == IF getParent(h3, n) = NULL THEN h3
              ELSE IF n = getLeftChild(h3, getParent(h3, n))
                   THEN setLeftChild(h3, getParent(h3, n), m)
                   ELSE setRightChild(h3, getParent(h3, n), m)
        h5 == setLeftChild(h4, m, n)
        h6 == setParent(h5, n, m)
        h7 == setColor(setColor(h6, n, getColor(h, m)), m, getColor(h, n))
    IN [heap |-> h7, root |-> rt1]

\* leftRotate that forgets to hand back m as the root when n was the root
leftRotateKeepRoot(h, rt, n) ==
    LET m  == getRightChild(h, n)
        h1 == setRightChild(h, n, getLeftChild(h, m))
        h2 == IF getLeftChild(h1, m) # NULL
              THEN setParent(h1, getLeftChild(h1, m), n) ELSE h1
        h3 == setParent(h2, m, getParent(h2, n))
        h4 == IF getParent(h3, n) = NULL THEN h3
              ELSE IF n = getLeftChild(h3, getParent(h3, n))
                   THEN setLeftChild(h3, getParent(h3, n), m)
                   ELSE setRightChild(h3, getParent(h3, n), m)
        h5 == setLeftChild(h4, m, n)
        h6 == setParent(h5, n, m)
    IN [heap |-> h6, root |-> rt]

leftRotate(h, rt, n) ==
    LET m  == getRightChild(h, n)
        h1 == setRightChild(h, n, getLeftChild(h, m))
        h2 == IF getLeftChild(h1, m) # NULL
              THEN setParent(h1, getLeftChild(h1, m), n) ELSE h1
        h3 == setParent(h2, m, getParent(h2, n))
        rt1 == IF getParent(h3, n) = NULL THEN m ELSE rt
        h4 == IF getParent(h3, n) = NULL THEN h3
              ELSE IF n = getLeftChild(h3, getParent(h3, n))
                   THEN setLeftChild(h3, getParent(h3, n), m)
                   ELSE setRightChild(h3, getParent(h3, n), m)
        h5 == setLeftChild(h4, m, n)
        h6 == setParent(h5, n, m)
    IN [heap |-> h6, root |-> rt1]

\* rightRotate that clears n's left link instead of handing m's right
\* subtree to it
rightRotateDropSubtree(h, rt, n) ==
    LET m  == getLeftChild(h, n)
        h1 == setLeftChild(h, n, NULL)
        h3 == setParent(h1, m, getParent(h1, n))
        rt1 == IF getParent(h3, n) = NULL THEN m ELSE rt
        h4 == IF getParent(h3, n) = NULL THEN h3
              ELSE IF n = getRightChild(h3, getParent(h3, n))
                   THEN setRightChild(h3, getParent(h3, n), m)
                   ELSE setLeftChild(h3, getParent(h3, n), m)
        h5 == setRightChild(h4, m, n)
        h6 == setParent(h5, n, m)
    IN [heap |-> h6, root |-> rt1]

\* rightRotate that forgets the final setParent(n, m)
rightRotateNoParent(h, rt, n) ==
    LET m  == getLeftChild(h, n)
        h1 == setLeftChild(h, n, getRightChild(h, m))
        h2 == IF getRightChild(h1, m) # NULL
              THEN setParent(h1, getRightChild(h1, m), n) ELSE h1
        h3 == setParent(h2, m, getParent(h2, n))
        rt1 == IF getParent(h3, n) = NULL THEN m ELSE rt
        h4 == IF getParent(h3, n) = NULL THEN h3
              ELSE IF n = getRightChild(h3, getParent(h3, n))
                   THEN setRightChild(h3, getParent(h3, n), m)
                   ELSE setLeftChild(h3, getParent(h3, n), m)
        h5 == setRightChild(h4, m, n)
    IN [heap |-> h5, root |-> rt1]

rightRotate(h, rt, n) ==
    LET m  == getLeftChild(h, n)
        h1 == setLeftChild(h, n, getRightChild(h, m))
        h2 == IF getRightChild(h1, m) # NULL
              THEN setParent(h1, getRightChild(h1, m), n) ELSE h1
        h3 == setParent(h2, m, getParent(h2, n))
        rt1 == IF getParent(h3, n) = NULL THEN m ELSE rt
        h4 == IF getParent(h3, n) = NULL THEN h3
              ELSE IF n = getRightChild(h3, getParent(h3, n))
                   THEN setRightChild(h3, getParent(h3, n), m)
                   ELSE setLeftChild(h3, getParent(h3, n), m)
        h5 == setRightChild(h4, m, n)
        h6 == setParent(h5, n, m)
    IN [heap |-> h6, root |-> rt1]

\* what a rotation requires of its argument: leftRotate a right child,
\* rightRotate a left child
HasRightChild(h, n) == n # NULL /\ getRightChild(h, n) # NULL

HasLeftChild(h, n) == n # NULL /\ getLeftChild(h, n) # NULL

\* ------------------------------------------------------------- printTree
RECURSIVE printTree(_, _)
printTree(h, n) ==
    IF n = NULL THEN <<>>
    ELSE printTree(h, getLeftChild(h, n)) \o <<getWord(h, n)>>
         \o printTree(h, getRightChild(h, n))

\* ------------------------------------------------------------------ Init
Init ==
    /\ heap = [n \in Nodes |-> Blank]
    /\ nalloc = 0
    /\ root = NULL
    /\ pc = "main"
    /\ word = <<>>
    /\ iroot = NULL
    /\ ptr = NULL
    /\ parent = NULL
    /\ uncle = NULL
    /\ grandparent = NULL
    /\ cmp = 0
    /\ oom = FALSE
    /\ nfail = 0
    /\ heap0 = heap
    /\ nalloc0 = 0
    /\ inserted = {}
    /\ out = <<>>
    /\ stack = <<>>
    /\ freeLog = <<>>
    /\ uaf = FALSE
    /\ iter = 0
    /\ branch = "none"
    /\ rotPre = TRUE
    /\ nrot = 0
    /\ nrecolor = 0
    /\ rotN = NULL
    /\ rotRoot = NULL
    /\ rotDir = "none"

\* ---------------------------------------------------------------- insert
\* main calls insert(root, w); insert runs its declarations and the
\* root == NULL test.  ok is the outcome of the malloc made when the tree is
\* empty.
InsertCall(w, ok) ==
    /\ pc = "main"
    /\ (root = NULL /\ ok) => nalloc < MaxNodes
    /\ (root = NULL /\ ~ok) => nfail < MaxFail
    /\ nfail' = IF root = NULL /\ ~ok THEN nfail + 1 ELSE nfail
    /\ LET mk == makeNode(heap, nalloc, w, NULL, ok) IN
         /\ heap' = IF root = NULL THEN mk.heap ELSE heap
         /\ nalloc' = IF root = NULL THEN mk.nalloc ELSE nalloc
         /\ iroot' = IF root = NULL THEN mk.node ELSE root
         /\ oom' = (root = NULL /\ ~ok)
    /\ ptr' = root
    /\ parent' = NULL
    /\ uncle' = NULL
    /\ grandparent' = NULL
    /\ cmp' = 0
    /\ word' = w
    /\ heap0' = heap
    /\ nalloc0' = nalloc
    /\ inserted' = inserted \cup {w}
    /\ pc' = "descend"
    /\ iter' = 0
    /\ branch' = "none"
    /\ UNCHANGED <<root, rotPre, nrot, nrecolor, teardown, rotvars>>

\* what insert's caller sees when insert returns rt
Return(rt, h) ==
    /\ root' = rt
    /\ pc' = "main"
    /\ word' = <<>>
    /\ iroot' = NULL
    /\ ptr' = NULL
    /\ parent' = NULL
    /\ uncle' = NULL
    /\ grandparent' = NULL
    /\ cmp' = 0
    /\ oom' = FALSE
    /\ nfail' = nfail
    /\ heap0' = h
    /\ nalloc0' = nalloc'
    /\ iter' = 0
    /\ branch' = "none"

\* a descent loop that never moves ptr to the child
DescendStepStuck ==
    /\ pc = "descend"
    /\ ptr # NULL
    /\ LET c == strcmp(word, getWord(heap, ptr)) IN
         /\ c # 0
         /\ parent' = ptr
         /\ cmp' = c
         /\ ptr' = ptr
    /\ UNCHANGED <<heap, nalloc, root, pc, word, iroot, uncle, grandparent,
                   oom, history, insertHist, teardown, rotvars>>

\* one iteration of the descent loop that moves to a child
DescendStep ==
    /\ pc = "descend"
    /\ ptr # NULL
    /\ LET c == strcmp(word, getWord(heap, ptr)) IN
         /\ c # 0
         /\ parent' = ptr
         /\ cmp' = c
         /\ ptr' = IF c < 0 THEN getLeftChild(heap, ptr) ELSE getRightChild(heap, ptr)
    /\ UNCHANGED <<heap, nalloc, root, pc, word, iroot, uncle, grandparent,
                   oom, history, insertHist, teardown, rotvars>>

\* a descent that treats an equal word like a greater one and goes on
DescendFoundContinue ==
    /\ pc = "descend"
    /\ ptr # NULL
    /\ strcmp(word, getWord(heap, ptr)) = 0
    /\ parent' = ptr
    /\ cmp' = 0
    /\ ptr' = getRightChild(heap, ptr)
    /\ UNCHANGED <<heap, nalloc, root, pc, word, iroot, uncle, grandparent,
                   oom, history, insertHist, teardown, rotvars>>

\* the iteration of the descent loop that finds the word and returns
DescendFound ==
    /\ pc = "descend"
    /\ ptr # NULL
    /\ strcmp(word, getWord(heap, ptr)) = 0
    /\ UNCHANGED <<heap, nalloc, inserted, rotPre, nrot, nrecolor, teardown,
                   rotvars>>
    /\ Return(iroot, heap)

\* an attach with the two sides exchanged
AttachSwapped(ok) ==
    /\ pc = "descend"
    /\ ptr = NULL
    /\ ok => nalloc < MaxNodes
    /\ ~ok => nfail < MaxFail
    /\ nfail' = IF ok THEN nfail ELSE nfail + 1
    /\ LET mk == makeNode(heap, nalloc, word, parent, ok)
           h1 == IF cmp < 0 THEN setRightChild(mk.heap, parent, mk.node)
                 ELSE setLeftChild(mk.heap, parent, mk.node)
       IN /\ heap' = h1
          /\ nalloc' = mk.nalloc
          /\ ptr' = IF cmp < 0 THEN getRightChild(h1, parent)
                    ELSE getLeftChild(h1, parent)
    /\ oom' = (oom \/ ~ok)
    /\ pc' = "fixup"
    /\ UNCHANGED <<root, word, iroot, parent, uncle, grandparent, cmp,
                   heap0, nalloc0, inserted, insertHist, teardown, rotvars>>

\* the descent loop has ended: link a new node under parent
Attach(ok) ==
    /\ pc = "descend"
    /\ ptr = NULL
    /\ ok => nalloc < MaxNodes
    /\ ~ok => nfail < MaxFail
    /\ nfail' = IF ok THEN nfail ELSE nfail + 1
    /\ LET mk == makeNode(heap, nalloc, word, parent, ok)
           h1 == IF cmp < 0 THEN setLeftChild(mk.heap, parent, mk.node)
                 ELSE setRightChild(mk.heap, parent, mk.node)
       IN /\ heap' = h1
          /\ nalloc' = mk.nalloc
          /\ ptr' = IF cmp < 0 THEN getLeftChild(h1, parent)
                    ELSE getRightChild(h1, parent)
    /\ oom' = (oom \/ ~ok)
    /\ pc' = "fixup"
    /\ UNCHANGED <<root, word, iroot, parent, uncle, grandparent, cmp,
                   heap0, nalloc0, inserted, insertHist, teardown, rotvars>>

\* a loop test that does not look at the color of parent
LoopCondNoColor == ptr # iroot

LoopCond == ptr # iroot /\ getColor(heap, parent) = "r"

FixupFrame == <<nalloc, root, pc, word, parent, cmp, oom, history, teardown, rotvars>>

\* a Case A that forgets setColor(parent, 'b')
CaseALeftKeepParentRed ==
    /\ pc = "fixup"
    /\ LoopCond
    /\ LET u == getUncle(heap, ptr)
           g == getGrandparent(heap, ptr)
       IN /\ u = getRightChild(heap, g)
          /\ getColor(heap, u) = "r"
          /\ uncle' = u
          /\ grandparent' = g
          /\ heap' = setColor(setColor(heap, u, "b"), g, "r")
          /\ ptr' = g
          /\ iroot' = iroot
    /\ iter' = iter + 1
    /\ branch' = "left"
    /\ nrecolor' = nrecolor + 1
    /\ UNCHANGED <<rotPre, nrot>>
    /\ UNCHANGED FixupFrame

\* uncle on the right of the grandparent and red
CaseALeft ==
    /\ pc = "fixup"
    /\ LoopCond
    /\ LET u == getUncle(heap, ptr)
           g == getGrandparent(heap, ptr)
       IN /\ u = getRightChild(heap, g)
          /\ getColor(heap, u) = "r"
          /\ uncle' = u
          /\ grandparent' = g
          /\ heap' = setColor(setColor(setColor(heap, parent, "b"), u, "b"), g, "r")
          /\ ptr' = g
          /\ iroot' = iroot
    /\ iter' = iter + 1
    /\ branch' = "left"
    /\ nrecolor' = nrecolor + 1
    /\ UNCHANGED <<rotPre, nrot>>
    /\ UNCHANGED FixupFrame

\* uncle on the right of the grandparent and not red
CaseBLeft ==
    /\ pc = "fixup"
    /\ LoopCond
    /\ LET u == getUncle(heap, ptr)
           g == getGrandparent(heap, ptr)
           zig == (ptr = getRightChild(heap, parent))
           p1 == IF zig THEN parent ELSE ptr
           r1 == IF zig THEN leftRotate(heap, iroot, p1)
                 ELSE [heap |-> heap, root |-> iroot]
           h2 == setColor(setColor(r1.heap, parent, "b"), g, "r")
           r2 == rightRotate(h2, r1.root, g)
       IN /\ u = getRightChild(heap, g)
          /\ getColor(heap, u) # "r"
          /\ uncle' = u
          /\ grandparent' = g
          /\ ptr' = p1
          /\ heap' = r2.heap
          /\ iroot' = r2.root
          /\ nrot' = nrot + (IF zig THEN 2 ELSE 1)
          /\ rotPre' = (/\ rotPre
                        /\ zig => HasRightChild(heap, p1)
                        /\ HasLeftChild(h2, g))
    /\ iter' = iter + 1
    /\ branch' = "left"
    /\ nrecolor' = nrecolor + 1
    /\ UNCHANGED FixupFrame

\* a mirrored Case A that forgets setColor(uncle, 'b')
CaseARightKeepUncleRed ==
    /\ pc = "fixup"
    /\ LoopCond
    /\ LET u == getUncle(heap, ptr)
           g == getGrandparent(heap, ptr)
       IN /\ u # getRightChild(heap, g)
          /\ getColor(heap, u) = "r"
          /\ uncle' = u
          /\ grandparent' = g
          /\ heap' = setColor(setColor(heap, parent, "b"), g, "r")
          /\ ptr' = g
          /\ iroot' = iroot
    /\ iter' = iter + 1
    /\ branch' = "right"
    /\ nrecolor' = nrecolor + 1
    /\ UNCHANGED <<rotPre, nrot>>
    /\ UNCHANGED FixupFrame

\* uncle not the right child of the grandparent, and red
CaseARight ==
    /\ pc = "fixup"
    /\ LoopCond
    /\ LET u == getUncle(heap, ptr)
           g == getGrandparent(heap, ptr)
       IN /\ u # getRightChild(heap, g)
          /\ getColor(heap, u) = "r"
          /\ uncle' = u
          /\ grandparent' = g
          /\ heap' = setColor(setColor(setColor(heap, parent, "b"), u, "b"), g, "r")
          /\ ptr' = g
          /\ iroot' = iroot
    /\ iter' = iter + 1
    /\ branch' = "right"
    /\ nrecolor' = nrecolor + 1
    /\ UNCHANGED <<rotPre, nrot>>
    /\ UNCHANGED FixupFrame

\* uncle not the right child of the grandparent, and not red
CaseBRight ==
    /\ pc = "fixup"
    /\ LoopCond
    /\ LET u == getUncle(heap, ptr)
           g == getGrandparent(heap, ptr)
           zig == (ptr = getLeftChild(heap, parent))
           p1 == IF zig THEN parent ELSE ptr
           r1 == IF zig THEN rightRotate(heap, iroot, p1)
                 ELSE [heap |-> heap, root |-> iroot]
           h2 == setColor(setColor(r1.heap, parent, "b"), g, "r")
           r2 == leftRotate(h2, r1.root, g)
       IN /\ u # getRightChild(heap, g)
          /\ getColor(heap, u) # "r"
          /\ uncle' = u
          /\ grandparent' = g
          /\ ptr' = p1
          /\ heap' = r2.heap
          /\ iroot' = r2.root
          /\ nrot' = nrot + (IF zig THEN 2 ELSE 1)
          /\ rotPre' = (/\ rotPre
                        /\ zig => HasLeftChild(heap, p1)
                        /\ HasRightChild(h2, g))
    /\ iter' = iter + 1
    /\ branch' = "right"
    /\ nrecolor' = nrecolor + 1
    /\ UNCHANGED FixupFrame

\* an exit that returns without the final setColor(root, 'b')
FixupExitNoBlacken ==
    /\ pc = "fixup"
    /\ ~LoopCond
    /\ heap' = heap
    /\ UNCHANGED <<nalloc, inserted, rotPre, nrot, nrecolor, teardown, rotvars>>
    /\ Return(iroot, heap')

\* the fixup loop ends: blacken the root and return it
FixupExit ==
    /\ pc = "fixup"
    /\ ~LoopCond
    /\ heap' = setColor(heap, iroot, "b")
    /\ UNCHANGED <<nalloc, inserted, rotPre, nrot, nrecolor, teardown, rotvars>>
    /\ Return(iroot, heap')

\* ------------------------------------------------ printTree, recycleTree
\* main prints the tree and calls recycleTree(root); a call on NULL returns
\* at once, so only calls on nodes get a frame.
MainFinish ==
    /\ pc = "main"
    /\ out' = printTree(heap, root)
    /\ stack' = IF root = NULL THEN <<>> ELSE <<[n |-> root, st |-> 0]>>
    /\ pc' = IF root = NULL THEN "done" ELSE "recycle"
    /\ UNCHANGED <<heap, nalloc, root, locals, history, insertHist, rotvars, freeLog, uaf>>

Top == stack[Len(stack)]

Freed == {freeLog[i] : i \in 1..Len(freeLog)}

SetTop(s, k) == [s EXCEPT ![Len(s)].st = k]

\* recycleTree(getLeftChild(root))
RecycleLeft ==
    /\ pc = "recycle"
    /\ Top.st = 0
    /\ LET c == getLeftChild(heap, Top.n) IN
         stack' = IF c = NULL THEN SetTop(stack, 1)
                  ELSE Append(SetTop(stack, 1), [n |-> c, st |-> 0])
    /\ uaf' = (uaf \/ Top.n \in Freed)
    /\ UNCHANGED <<heap, nalloc, root, pc, locals, history, insertHist, rotvars, out, freeLog>>

\* a teardown that never recurses into the right subtree
RecycleRightSkip ==
    /\ pc = "recycle"
    /\ Top.st = 1
    /\ stack' = SetTop(stack, 2)
    /\ uaf' = (uaf \/ Top.n \in Freed)
    /\ UNCHANGED <<heap, nalloc, root, pc, locals, history, insertHist, rotvars, out, freeLog>>

\* recycleTree(getRightChild(root))
RecycleRight ==
    /\ pc = "recycle"
    /\ Top.st = 1
    /\ LET c == getRightChild(heap, Top.n) IN
         stack' = IF c = NULL THEN SetTop(stack, 2)
                  ELSE Append(SetTop(stack, 2), [n |-> c, st |-> 0])
    /\ uaf' = (uaf \/ Top.n \in Freed)
    /\ UNCHANGED <<heap, nalloc, root, pc, locals, history, insertHist, rotvars, out, freeLog>>

\* recycleNode(root), then return to the caller's frame
RecycleNode ==
    /\ pc = "recycle"
    /\ Top.st = 2
    /\ freeLog' = Append(freeLog, Top.n)
    /\ stack' = SubSeq(stack, 1, Len(stack) - 1)
    /\ pc' = IF Len(stack) = 1 THEN "done" ELSE "recycle"
    /\ UNCHANGED <<heap, nalloc, root, locals, history, insertHist, rotvars, out, uaf>>

\* -------------------------------------------------------- specifications
Next ==
    \/ \E w \in Words : InsertCall(w, TRUE)
    \/ DescendStep
    \/ DescendFound
    \/ Attach(TRUE)
    \/ CaseALeft
    \/ CaseBLeft
    \/ CaseARight
    \/ CaseBRight
    \/ FixupExit
    \/ MainFinish
    \/ RecycleLeft
    \/ RecycleRight
    \/ RecycleNode

Spec == Init /\ [][Next]_vars

\* the same program when malloc may return NULL
NextOOM ==
    \/ Next
    \/ \E w \in Words : InsertCall(w, FALSE)
    \/ Attach(FALSE)

SpecOOM == Init /\ [][NextOOM]_vars

\* insert runs to completion once called: its steps are taken as long as one
\* is possible
InsertStep ==
    \/ DescendStep
    \/ DescendFound
    \/ Attach(TRUE)
    \/ CaseALeft
    \/ CaseBLeft
    \/ CaseARight
    \/ CaseBRight
    \/ FixupExit

\* main's loop of insert calls, without the teardown that ends the run
LiveWords == {AllWords[i] : i \in 1..NumLiveWords}

NextInsert ==
    \/ \E w \in LiveWords : InsertCall(w, TRUE)
    \/ InsertStep

SpecLive == Init /\ [][NextInsert]_vars /\ WF_vars(InsertStep)

\* ---------------------------------------------- the rotations on their own
\* leftRotate and rightRotate applied once to any binary search tree of up
\* to NumRotWords nodes, of any shape and coloring, at any node that has the
\* child the rotation needs.
RotWords == {AllWords[i] : i \in 1..NumRotWords}

\* the node under which a plain search-tree insertion links w
RECURSIVE AttachPoint(_, _, _)
AttachPoint(h, cur, w) ==
    LET next == IF strcmp(w, getWord(h, cur)) < 0 THEN getLeftChild(h, cur)
                ELSE getRightChild(h, cur)
    IN IF next = NULL THEN cur ELSE AttachPoint(h, next, w)

\* a tree t = [heap, root, nalloc] with w linked as a leaf of color c
PlainInsert(t, w, c) ==
    LET p  == IF t.root = NULL THEN NULL ELSE AttachPoint(t.heap, t.root, w)
        mk == makeNode(t.heap, t.nalloc, w, p, TRUE)
        h1 == setColor(mk.heap, mk.node, c)
        h2 == IF strcmp(w, getWord(h1, p)) < 0 THEN setLeftChild(h1, p, mk.node)
              ELSE setRightChild(h1, p, mk.node)
    IN [heap |-> h2, root |-> IF t.root = NULL THEN mk.node ELSE t.root,
        nalloc |-> mk.nalloc]

RECURSIVE BuildTree(_, _)
BuildTree(ws, cs) ==
    IF ws = <<>> THEN [heap |-> [x \in Nodes |-> Blank], root |-> NULL, nalloc |-> 0]
    ELSE PlainInsert(BuildTree(SubSeq(ws, 1, Len(ws) - 1), cs),
                     ws[Len(ws)], cs[Len(ws)])

DistinctSeqs ==
    {ws \in UNION {[1..k -> RotWords] : k \in 1..NumRotWords} :
        \A i, j \in 1..Len(ws) : ws[i] = ws[j] => i = j}

InitRot ==
    /\ \E ws \in DistinctSeqs : \E cs \in [1..Len(ws) -> {"r", "b"}] :
          LET t == BuildTree(ws, cs) IN
          /\ heap = t.heap
          /\ root = t.root
          /\ nalloc = t.nalloc
    /\ pc = "rot"
    /\ word = <<>>
    /\ iroot = NULL
    /\ ptr = NULL
    /\ parent = NULL
    /\ uncle = NULL
    /\ grandparent = NULL
    /\ cmp = 0
    /\ oom = FALSE
    /\ nfail = 0
    /\ heap0 = heap
    /\ nalloc0 = nalloc
    /\ inserted = {}
    /\ out = <<>>
    /\ stack = <<>>
    /\ freeLog = <<>>
    /\ uaf = FALSE
    /\ iter = 0
    /\ branch = "none"
    /\ rotPre = TRUE
    /\ nrot = 0
    /\ nrecolor = 0
    /\ rotN = NULL
    /\ rotRoot = NULL
    /\ rotDir = "none"

RotFrame == <<nalloc, locals, nfail, nalloc0, inserted, teardown, insertHist>>

\* root = leftRotate(root, n)
RotateLeft(n) ==
    /\ pc = "rot"
    /\ n \in 1..nalloc
    /\ HasRightChild(heap, n)
    /\ LET r == leftRotate(heap, root, n) IN
         /\ heap' = r.heap
         /\ root' = r.root
    /\ heap0' = heap
    /\ rotN' = n
    /\ rotRoot' = root
    /\ rotDir' = "left"
    /\ pc' = "rotated"
    /\ UNCHANGED RotFrame

\* root = rightRotate(root, n)
RotateRight(n) ==
    /\ pc = "rot"
    /\ n \in 1..nalloc
    /\ HasLeftChild(heap, n)
    /\ LET r == rightRotate(heap, root, n) IN
         /\ heap' = r.heap
         /\ root' = r.root
    /\ heap0' = heap
    /\ rotN' = n
    /\ rotRoot' = root
    /\ rotDir' = "right"
    /\ pc' = "rotated"
    /\ UNCHANGED RotFrame

NextRot ==
    \/ \E n \in Nodes : RotateLeft(n)
    \/ \E n \in Nodes : RotateRight(n)

SpecRot == InitRot /\ [][NextRot]_vars

\* the insert calls alone, over one word more than Words holds
MoreWords == {AllWords[i] : i \in 1..(NumWords + 1)}

NextMore ==
    \/ \E w \in MoreWords : InsertCall(w, TRUE)
    \/ DescendStep
    \/ DescendFound
    \/ Attach(TRUE)
    \/ CaseALeft
    \/ CaseBLeft
    \/ CaseARight
    \/ CaseBRight
    \/ FixupExit

SpecMore == Init /\ [][NextMore]_vars

\* ------------------------------------------------- vocabulary of the claims
Children(h, S) ==
    {c \in Nodes : \E n \in S : n # NULL /\ (h[n].left = c \/ h[n].right = c)}

RECURSIVE ReachFrom(_, _, _)
ReachFrom(h, S, k) ==
    IF k = 0 THEN S ELSE ReachFrom(h, S \cup Children(h, S), k - 1)

\* the nodes that child links lead to from r, r included
Reach(h, r) == IF r = NULL THEN {} ELSE ReachFrom(h, {r}, MaxNodes)

\* the nodes strictly below n
Below(h, n) == Reach(h, getLeftChild(h, n)) \cup Reach(h, getRightChild(h, n))

KeysOf(h, r) == {h[n].word : n \in Reach(h, r)}

SeqSet(s) == {s[i] : i \in 1..Len(s)}

Ascending(s) == \A i \in 1..(Len(s) - 1) : strcmp(s[i], s[i + 1]) < 0

BSTProperty(h, r) ==
    \A n \in Reach(h, r) :
        /\ \A l \in Reach(h, h[n].left) : strcmp(h[l].word, h[n].word) < 0
        /\ \A g \in Reach(h, h[n].right) : strcmp(h[g].word, h[n].word) > 0

\* the numbers of BLACK nodes met on the paths from n to the absent-child
\* positions below it
RECURSIVE BlackCounts(_, _)
BlackCounts(h, n) ==
    IF n = NULL THEN {0}
    ELSE {c + (IF h[n].color = "b" THEN 1 ELSE 0) :
            c \in BlackCounts(h, h[n].left) \cup BlackCounts(h, h[n].right)}

\* the child slots (node, side) that hold n
Slots(h, n) ==
    {sl \in Nodes \X {"left", "right"} :
        IF sl[2] = "left" THEN h[sl[1]].left = n ELSE h[sl[1]].right = n}

WellFormed(h, r) ==
    /\ r # NULL => /\ r \in 1..nalloc
                   /\ h[r].parent = NULL
                   /\ Slots(h, r) = {}
    /\ \A n \in Reach(h, r) :
        /\ n \in 1..nalloc
        /\ n \notin Below(h, n)
        /\ n # r => /\ Cardinality(Slots(h, n)) = 1
                    /\ \A sl \in Slots(h, n) : h[n].parent = sl[1]

\* the root insert is working on, or the caller's root between calls
CurRoot == IF pc \in {"descend", "fixup"} THEN iroot ELSE root

Returning == pc \in {"descend", "fixup"} /\ pc' = "main"

\* ------------------------------------------------------------------ claims

\* C1: after any sequence of insert calls the BST property holds at every
\* node (left subtree keys less, right subtree keys greater), so printTree
\* yields a strictly ascending sequence.
BSTOrder ==
    pc = "main" => /\ BSTProperty(heap, root)
                   /\ Ascending(printTree(heap, root))

WitnessBSTOrder ==
    /\ pc = "main"
    /\ Len(printTree(heap, root)) >= 5
    /\ root # 1
    /\ Below(heap, getLeftChild(heap, root)) # {}
    /\ Below(heap, getRightChild(heap, root)) # {}

\* C2: the traversal of the tree yields exactly the distinct words that
\* were inserted, each once, and the tree has as many nodes as there are
\* distinct words; the output is therefore the same for every order of
\* insertion.
TraversalIsInsertedSet ==
    pc = "main" =>
        LET s == printTree(heap, root) IN
        /\ SeqSet(s) = inserted
        /\ Len(s) = Cardinality(inserted)
        /\ Cardinality(Reach(heap, root)) = Cardinality(inserted)
        /\ Ascending(s)

WitnessTraversalIsInsertedSet ==
    /\ pc = "main"
    /\ Cardinality(inserted) >= 5
    /\ root # 1
    /\ heap[1].color = "r"

\* C3: whenever insert has returned a non-empty tree, its root is BLACK.
RootIsBlack == (pc = "main" /\ root # NULL) => getColor(heap, root) = "b"

\* a returned root with two BLACK children and nodes below them
WitnessRootIsBlack ==
    /\ pc = "main"
    /\ root # NULL
    /\ getColor(heap, getLeftChild(heap, root)) = "b"
    /\ getColor(heap, getRightChild(heap, root)) = "b"
    /\ Below(heap, getLeftChild(heap, root)) # {}

\* C4: after every insert call no RED node has a RED parent.
NoRedRed ==
    pc = "main" =>
        \A n \in Reach(heap, root) :
            ~(getColor(heap, n) = "r" /\ getColor(heap, getParent(heap, n)) = "r")

\* C5: after every insert call every path from a node to the absent-child
\* positions below it passes through the same number of BLACK nodes.
BlackHeightUniform ==
    pc = "main" =>
        /\ Cardinality(BlackCounts(heap, root)) = 1
        /\ \A n \in Reach(heap, root) : Cardinality(BlackCounts(heap, n)) = 1

\* C6: an insert of a word already in the tree returns the same root,
\* allocates nothing and leaves every node as it was before the call.
DuplicateInsertChangesNothing ==
    [][(Returning /\ word \in KeysOf(heap0, root)) =>
          (root' = root /\ heap' = heap0 /\ nalloc' = nalloc0)]_vars

\* the descent has reached, below the root, the node holding the word
WitnessDuplicateInsert ==
    /\ pc = "descend"
    /\ word \in KeysOf(heap0, root)
    /\ ptr # NULL
    /\ ptr # root
    /\ strcmp(word, getWord(heap, ptr)) = 0

\* C7: during and after every insert call the links form a tree: the root
\* has no parent, every other node sits in exactly one child slot, the slot
\* of the node its parent link names, and no node is below itself.
LinksFormTree == pc \in {"main", "descend", "fixup"} => WellFormed(heap, CurRoot)

\* a double rotation has just been made inside insert
WitnessLinksFormTree ==
    /\ pc = "fixup"
    /\ iroot # root
    /\ ptr = parent
    /\ getParent(heap, parent) # NULL
    /\ Cardinality(Reach(heap, iroot)) >= 5

\* C8: insert allocates one node per new word and links it; the number of
\* nodes allocated is the number of nodes reachable from the root, and an
\* insert into the empty tree creates a single node.
NoOrphanAllocation ==
    pc = "main" => nalloc = Cardinality(Reach(heap, root))

\* C9: when malloc fails inside insert, insert does not hand a damaged tree
\* back to its caller as if nothing had happened: the root it returns is
\* not NULL when the tree was non-empty, and no node that had a parent has
\* lost it.
AllocFailureNeverCorrupts ==
    [][(Returning /\ oom) =>
          /\ root # NULL => root' # NULL
          /\ \A n \in 1..nalloc0 :
                heap0[n].parent # NULL => heap'[n].parent # NULL]_vars

\* C10: recycleTree frees every node reachable from the root exactly once,
\* the nodes below a node before the node, reads no freed node, and does
\* nothing on the empty tree.
Position(n) == CHOOSE i \in 1..Len(freeLog) : freeLog[i] = n

RecycleFreesAllOnce ==
    /\ ~uaf
    /\ \A i, j \in 1..Len(freeLog) : freeLog[i] = freeLog[j] => i = j
    /\ \A i \in 1..Len(freeLog) :
          \A c \in Below(heap, freeLog[i]) :
              c \in Freed /\ Position(c) < i
    /\ Freed \subseteq Reach(heap, root)
    /\ pc = "done" => Freed = Reach(heap, root)
    /\ (pc = "done" /\ root = NULL) => freeLog = <<>>

WitnessRecycle ==
    /\ pc = "done"
    /\ Len(freeLog) >= 5
    /\ freeLog[Len(freeLog)] = root
    /\ root # 1

\* C11: after any sequence of inserts the longest path from the root to an
\* absent-child position has at most twice as many nodes as the shortest.
RECURSIVE PathLens(_, _)
PathLens(h, n) ==
    IF n = NULL THEN {0}
    ELSE {c + 1 : c \in PathLens(h, h[n].left) \cup PathLens(h, h[n].right)}

HeightBalanced ==
    pc = "main" =>
        \A long, short \in PathLens(heap, root) : long <= 2 * short

\* C12: every insert call terminates: from any point of the descent or of
\* the fixup loop the call goes on to return to main.
InsertTerminates == (pc \in {"descend", "fixup"}) ~> (pc = "main")

\* the fixup loop has run its body and now exits below the root
WitnessInsertTerminates ==
    /\ pc = "fixup"
    /\ iter = 1
    /\ ~LoopCond
    /\ ptr # iroot
    /\ Cardinality(Reach(heap, iroot)) >= 5

\* the child m that the last rotation moved up, the subtree it handed from
\* m to n, and the parent n had
RotM == IF rotDir = "left" THEN getRightChild(heap0, rotN)
        ELSE getLeftChild(heap0, rotN)

RotMoved == IF rotDir = "left" THEN getLeftChild(heap0, RotM)
            ELSE getRightChild(heap0, RotM)

RotParent == getParent(heap0, rotN)

\* C13: a rotation at n whose child m is present leaves the in-order key
\* sequence of the tree unchanged, puts m in n's former position with n as
\* m's child, and returns m if n was the root and the old root otherwise.
RotationKeepsOrder ==
    rotDir # "none" =>
        /\ printTree(heap, root) = printTree(heap0, rotRoot)
        /\ getParent(heap, RotM) = RotParent
        /\ RotParent # NULL =>
              /\ getLeftChild(heap0, RotParent) = rotN
                    => getLeftChild(heap, RotParent) = RotM
              /\ getRightChild(heap0, RotParent) = rotN
                    => getRightChild(heap, RotParent) = RotM
        /\ getParent(heap, rotN) = RotM
        /\ rotDir = "left" => getLeftChild(heap, RotM) = rotN
        /\ rotDir = "right" => getRightChild(heap, RotM) = rotN
        /\ root = IF rotN = rotRoot THEN RotM ELSE rotRoot

\* a left rotation below the root that handed a subtree from m to n
WitnessRotationKeepsOrder ==
    /\ rotDir = "left"
    /\ rotN # rotRoot
    /\ RotMoved # NULL
    /\ getRightChild(heap, rotN) = RotMoved

\* C14: a rotation changes no key and no color, and no link of any node
\* other than n, m, the root of the subtree handed from m to n and n's
\* original parent.
RotationFrame ==
    rotDir # "none" =>
        \A x \in Nodes :
            /\ heap[x].word = heap0[x].word
            /\ heap[x].color = heap0[x].color
            /\ x \notin {rotN, RotM, RotMoved, RotParent} =>
                  /\ heap[x].parent = heap0[x].parent
                  /\ heap[x].left = heap0[x].left
                  /\ heap[x].right = heap0[x].right

\* a right rotation with a subtree handed over, a parent above n and a node
\* that is none of the four
WitnessRotationFrame ==
    /\ rotDir = "right"
    /\ RotMoved # NULL
    /\ RotParent # NULL
    /\ \E x \in 1..nalloc : x \notin {rotN, RotM, RotMoved, RotParent}
    /\ heap[rotN].color # heap[RotM].color

\* C15: the fixup loop goes on while ptr is not the root and the parent of
\* ptr is RED, so when it exits ptr is the root or ptr's parent is not RED.
LoopExitsClean ==
    (pc = "fixup" /\ ~LoopCond) =>
        (ptr = iroot \/ getColor(heap, getParent(heap, ptr)) # "r")

\* the step about to be taken is the loop body with an uncle that is not RED
CaseBStep ==
    /\ pc = "fixup"
    /\ LoopCond
    /\ getColor(heap, getUncle(heap, ptr)) # "r"
    /\ iter' = iter + 1

\* C16: after a Case B step the node now in the grandparent's former
\* position is BLACK, its two children are the other two of new node,
\* parent and grandparent, and the former grandparent is RED.
CaseBLocallyValid ==
    [][CaseBStep =>
          LET g == getGrandparent(heap, ptr)
              gp == getParent(heap, g)
              three == {ptr, parent, g}
          IN \E t \in three :
                /\ getParent(heap', t) = gp
                /\ gp = NULL => iroot' = t
                /\ gp # NULL =>
                      /\ getLeftChild(heap, gp) = g => getLeftChild(heap', gp) = t
                      /\ getRightChild(heap, gp) = g => getRightChild(heap', gp) = t
                /\ getColor(heap', t) = "b"
                /\ {getLeftChild(heap', t), getRightChild(heap', t)} = three \ {t}
                /\ getColor(heap', g) = "r"]_vars

\* C17: an iteration of the fixup loop takes the left-side branch exactly
\* when the parent of ptr is the grandparent's left child and the mirrored
\* branch exactly when it is the right child.
BranchMatchesSide ==
    [][(pc = "fixup" /\ iter' = iter + 1) =>
          LET g == getGrandparent(heap, ptr) IN
          /\ getParent(heap, ptr) # NULL
          /\ branch' = "left" <=> getParent(heap, ptr) = getLeftChild(heap, g)
          /\ branch' = "right" <=> getParent(heap, ptr) = getRightChild(heap, g)]_vars

\* the mirrored branch has been taken with no uncle
WitnessBranchMatchesSide ==
    /\ pc = "fixup"
    /\ iter = 1
    /\ branch = "right"
    /\ uncle = NULL
    /\ grandparent # NULL

\* C18: every rotation insert has made was on a node that exists and has the
\* child the rotation moves up.
RotationsHaveChild == rotPre

\* the two rotations of a zig-zag have just been made
WitnessRotationsHaveChild ==
    /\ pc = "fixup"
    /\ iter = 1
    /\ ptr = parent
    /\ nrot >= 2
    /\ rotPre

\* the run that inserted m, d, t, b, f, k in that order, and nothing else
ScenarioDone ==
    /\ pc = "main"
    /\ nalloc = 7
    /\ heap[1].word = <<109>>
    /\ heap[3].word = <<100>>
    /\ heap[4].word = <<116>>
    /\ heap[5].word = <<98>>
    /\ heap[6].word = <<102>>
    /\ heap[7].word = <<107>>

ScenarioResult ==
    /\ printTree(heap, root) = << <<98>>, <<100>>, <<102>>, <<107>>, <<109>>, <<116>> >>
    /\ getColor(heap, root) = "b"
    /\ \A n \in Reach(heap, root) :
          ~(getColor(heap, n) = "r" /\ getColor(heap, getParent(heap, n)) = "r")

\* C19 as stated: inserting m, d, t, b, f, k makes at least one rotation and
\* at least one recoloring and ends with traversal b, d, f, k, m, t, a BLACK
\* root and no RED node under a RED parent.
ScenarioRotatesAndRecolors ==
    ScenarioDone => (nrot >= 1 /\ nrecolor >= 1 /\ ScenarioResult)

\* C19 as amended: the same inserts make at least one recoloring and no
\* rotation, with the same final tree properties.
ScenarioRecolorsOnly ==
    ScenarioDone => (nrot = 0 /\ nrecolor >= 1 /\ ScenarioResult)

WitnessScenario == ScenarioDone /\ nrecolor = 2

\* C20: within one insert call the body of the fixup loop runs at most once.
BodyAtMostOnce == iter <= 1

\* the loop has run once and stops although ptr's parent is RED
WitnessBodyAtMostOnce ==
    /\ pc = "fixup"
    /\ iter = 1
    /\ ptr # iroot
    /\ getColor(heap, getParent(heap, ptr)) = "r"

====
